---------------------------- MODULE Spec2Model ----------------------------
(***************************************************************************)
(* A model of sprint_productivity_streamlit: GitLabSprintHelper            *)
(* (src/gitlab_sprint_helper.py) and the Streamlit page that charts the MR *)
(* rate (src/streamlit_app.py).                                            *)
(*                                                                         *)
(* Text is a sequence of one-character strings, so that the regular        *)
(* expressions, str.strip, str.split, str.join and strptime of the source  *)
(* are computed character by character.  Python's true division is exact   *)
(* rational arithmetic on reduced fractions [num, den]; dividing by zero   *)
(* raises ZeroDivisionError, a value.                                      *)
(***************************************************************************)
EXTENDS Integers, Sequences, FiniteSets, TLC

(***************************************************************************)
(* Characters and the character classes of Python's re module.             *)
(***************************************************************************)
Digits == <<"0","1","2","3","4","5","6","7","8","9">>

UpperCase ==
  <<"A","B","C","D","E","F","G","H","I","J","K","L","M",
    "N","O","P","Q","R","S","T","U","V","W","X","Y","Z">>

LowerCase ==
  <<"a","b","c","d","e","f","g","h","i","j","k","l","m",
    "n","o","p","q","r","s","t","u","v","w","x","y","z">>

Range(seq) == {seq[k] : k \in 1..Len(seq)}

\* \d
\* the element of a set of one element.  The({e : x \in {v}}) is e with x
\* assigned the value of v, computed once as an assignment computes it
The(S) == CHOOSE x \in S : TRUE

DigitChar == Range(Digits)

\* \s
SpaceChar == {" ", "\t", "\n", "\r", "\f"}

\* [\w-]
SegmentChar == Range(Digits) \cup Range(UpperCase) \cup Range(LowerCase) \cup {"_", "-"}

\* re.IGNORECASE folds both sides to lower case
ToLower(c) ==
  IF c \in Range(UpperCase)
    THEN LowerCase[CHOOSE k \in 1..Len(UpperCase) : UpperCase[k] = c]
    ELSE c

\* a literal of a pattern matches s from position i on
MatchLit(s, i, lit, ignorecase) ==
  /\ i >= 1
  /\ i + Len(lit) - 1 <= Len(s)
  /\ \A k \in 1..Len(lit) :
       IF ignorecase THEN ToLower(s[i + k - 1]) = ToLower(lit[k])
                     ELSE s[i + k - 1] = lit[k]

\* a greedy class* from position i: the first position not in the class
RunEnd(s, i, class) ==
  CHOOSE p \in i..(Len(s) + 1) :
    /\ p = Len(s) + 1 \/ s[p] \notin class
    /\ \A k \in i..(p - 1) : s[k] \in class

\* the end of the line position i is on: the first position from i on that holds
\* a newline, or the end of s
LineEnd(s, i) ==
  CHOOSE p \in i..(Len(s) + 1) :
    /\ p = Len(s) + 1 \/ s[p] = "\n"
    /\ \A k \in i..(p - 1) : s[k] # "\n"

\* str.strip()
Strip(s) ==
  LET a == RunEnd(s, 1, SpaceChar)
      b == IF a > Len(s) THEN a - 1
           ELSE CHOOSE q \in a..Len(s) :
                  /\ s[q] \notin SpaceChar
                  /\ \A k \in (q + 1)..Len(s) : s[k] \in SpaceChar
  IN  SubSeq(s, a, b)

\* pattern.match(body) for r"^\s*#+\s*.*<word>" with re.IGNORECASE: the hashes,
\* then white space, then characters of one line, then the word
HeadingMatch(body, word) ==
  LET a == RunEnd(body, 1, SpaceChar)
  IN  /\ a <= Len(body)
      /\ body[a] = "#"
      /\ \E h \in (a + 1)..RunEnd(body, a, {"#"}) :
           \E p \in h..RunEnd(body, h, SpaceChar) :
             \E q \in p..LineEnd(body, p) :
               MatchLit(body, q, word, TRUE)

\* pattern.match(s) for r"^\s*#\s*Review\s*$" with re.IGNORECASE
SplitterMatch(s) ==
  LET a == RunEnd(s, 1, SpaceChar)
      b == RunEnd(s, a + 1, SpaceChar)
      c == RunEnd(s, b + 6, SpaceChar)
  IN  /\ a <= Len(s)
      /\ s[a] = "#"
      /\ MatchLit(s, b, <<"R","e","v","i","e","w">>, TRUE)
      /\ \/ c = Len(s) + 1
         \/ \E e \in (b + 6)..Len(s) :
              /\ e = Len(s)
              /\ s[e] = "\n"
              /\ \A k \in (b + 6)..(e - 1) : s[k] \in SpaceChar

\* pattern.match(title) for r"Sprint \d+/\d+: .+"
SprintTitleMatch(title) ==
  LET a == RunEnd(title, 8, DigitChar)
      b == RunEnd(title, a + 1, DigitChar)
  IN  /\ MatchLit(title, 1, <<"S","p","r","i","n","t"," ">>, FALSE)
      /\ a > 8
      /\ MatchLit(title, a, <<"/">>, FALSE)
      /\ b > a + 1
      /\ MatchLit(title, b, <<":"," ">>, FALSE)
      /\ b + 2 <= Len(title)
      /\ title[b + 2] # "\n"

Issues == <<"i","s","s","u","e","s">>

WorkItems == <<"w","o","r","k","_","i","t","e","m","s">>

\* r"https://gitlab.com/([\w-]+/[\w-]+/[\w-]+/-/(issues|work_items)/(\d+))"
\* tried at position i, piece by piece.  NoMatch, or the end of the match and its
\* groups.
NoMatch == [ok |-> FALSE, end |-> 0, groups |-> <<>>]

\* (\d+) from d to de; g and k are where groups 1 and 2 start
IssueUrlId(s, g, k, d, de) ==
  IF de > d
    THEN [ok |-> TRUE, end |-> de,
          groups |-> <<SubSeq(s, g, de - 1), SubSeq(s, k, d - 2), SubSeq(s, d, de - 1)>>]
    ELSE NoMatch

\* (issues|work_items) at k, of length kl, then "/" and the id
IssueUrlKind(s, g, k, kl) ==
  IF MatchLit(s, k + kl, <<"/">>, FALSE)
    THEN IssueUrlId(s, g, k, k + kl + 1, RunEnd(s, k + kl + 1, DigitChar))
    ELSE NoMatch

\* "/-/" at e, then the alternation
IssueUrlDash(s, g, e) ==
  IF ~MatchLit(s, e, <<"/","-","/">>, FALSE) THEN NoMatch
  ELSE IF MatchLit(s, e + 3, Issues, FALSE) THEN IssueUrlKind(s, g, e + 3, 6)
  ELSE IF MatchLit(s, e + 3, WorkItems, FALSE) THEN IssueUrlKind(s, g, e + 3, 10)
  ELSE NoMatch

\* n more times "[\w-]+" after a "/", the segment starting at b and ending before e
RECURSIVE IssueUrlSegments(_, _, _, _, _)
IssueUrlSegments(s, g, b, e, n) ==
  IF e = b THEN NoMatch
  ELSE IF n = 0 THEN IssueUrlDash(s, g, e)
  ELSE IF MatchLit(s, e, <<"/">>, FALSE)
    THEN IssueUrlSegments(s, g, e + 1, RunEnd(s, e + 1, SegmentChar), n - 1)
  ELSE NoMatch

IssueUrlMatchAt(s, i) ==
  IF /\ MatchLit(s, i, <<"h","t","t","p","s",":","/","/","g","i","t","l","a","b">>, FALSE)
     /\ i + 14 <= Len(s)
     /\ s[i + 14] # "\n"
     /\ MatchLit(s, i + 15, <<"c","o","m","/">>, FALSE)
    THEN IssueUrlSegments(s, i + 19, i + 19, RunEnd(s, i + 19, SegmentChar), 2)
    ELSE NoMatch

\* the first position from i on at which the pattern matches
NextMatch(body, i) ==
  CHOOSE j \in i..Len(body) :
    /\ IssueUrlMatchAt(body, j).ok
    /\ \A k \in i..(j - 1) : ~IssueUrlMatchAt(body, k).ok

\* pattern.findall(body): the groups of the leftmost non-overlapping matches
RECURSIVE FindAllFrom(_, _)
FindAllFrom(body, i) ==
  IF \A j \in i..Len(body) : ~IssueUrlMatchAt(body, j).ok THEN <<>>
  ELSE The({<<m.groups>> \o FindAllFrom(body, m.end) :
              m \in {IssueUrlMatchAt(body, NextMatch(body, i))}})

\* the position of the j-th separator in s: 0 for j = 0, past the end of s when s
\* has fewer
SeparatorAt(s, sep, j) ==
  IF j = 0 THEN 0
  ELSE IF j > Cardinality({k \in 1..Len(s) : s[k] = sep}) THEN Len(s) + 1
  ELSE CHOOSE p \in 1..Len(s) :
         /\ s[p] = sep
         /\ Cardinality({k \in 1..p : s[k] = sep}) = j

\* str.split(sep) for a one-character separator: the pieces between the separators
SplitOn(s, sep) ==
  [j \in 1..(Cardinality({k \in 1..Len(s) : s[k] = sep}) + 1) |->
     SubSeq(s, SeparatorAt(s, sep, j - 1) + 1, SeparatorAt(s, sep, j) - 1)]

\* sep.join(parts)
RECURSIVE JoinWith(_, _)
JoinWith(parts, sep) ==
  IF Len(parts) = 0 THEN <<>>
  ELSE IF Len(parts) = 1 THEN parts[1]
  ELSE parts[1] \o <<sep>> \o JoinWith(Tail(parts), sep)

\* parts[:-n]
DropLast(parts, n) ==
  IF Len(parts) <= n THEN <<>> ELSE SubSeq(parts, 1, Len(parts) - n)

(***************************************************************************)
(* datetime.strptime(text, "%Y-%m-%dT%H:%M:%S.%fZ") on GitLab's timestamps *)
(***************************************************************************)
DigitValue(c) == (CHOOSE k \in 1..10 : Digits[k] = c) - 1

\* the number the first n digits of ds write
RECURSIVE NumberOf(_, _)
NumberOf(ds, n) ==
  IF n = 0 THEN 0 ELSE 10 * NumberOf(ds, n - 1) + DigitValue(ds[n])

Number(ds) == NumberOf(ds, Len(ds))

RECURSIVE Pow10(_)
Pow10(n) == IF n = 0 THEN 1 ELSE 10 * Pow10(n - 1)

\* the proleptic Gregorian day number of a date
DayNumber(y, m, d) ==
  LET yy  == IF m <= 2 THEN y - 1 ELSE y
      era == yy \div 400
      yoe == yy - era * 400
      mp  == IF m > 2 THEN m - 3 ELSE m + 9
      doy == (153 * mp + 2) \div 5 + d - 1
      doe == yoe * 365 + yoe \div 4 - yoe \div 100 + doy
  IN  era * 146097 + doe

\* the parsed datetime: day, second of the day, microsecond (%f takes one to six
\* digits and pads them on the right)
Strptime(text) ==
  LET frac == SubSeq(text, 21, Len(text) - 1)
  IN  [day  |-> DayNumber(Number(SubSeq(text, 1, 4)), Number(SubSeq(text, 6, 7)),
                          Number(SubSeq(text, 9, 10))),
       sec  |-> 3600 * Number(SubSeq(text, 12, 13)) + 60 * Number(SubSeq(text, 15, 16))
                  + Number(SubSeq(text, 18, 19)),
       usec |-> Number(frac) * Pow10(6 - Len(frac))]

\* datetime < datetime
DateTimeLess(a, b) ==
  \/ a.day < b.day
  \/ a.day = b.day /\ a.sec < b.sec
  \/ a.day = b.day /\ a.sec = b.sec /\ a.usec < b.usec

(***************************************************************************)
(* Python numbers: int and float values as reduced fractions.              *)
(***************************************************************************)
\* the result of a division that raises: no number has the denominator 0
ZeroDivisionError == [num |-> 1, den |-> 0]

Abs(n) == IF n < 0 THEN -n ELSE n

RECURSIVE Gcd(_, _)
Gcd(a, b) == IF b = 0 THEN a ELSE Gcd(b, a % b)

Rat(n, d) ==
  LET g == Gcd(Abs(n), d)
  IN  [num |-> n \div g, den |-> d \div g]

Whole(n) == [num |-> n, den |-> 1]

\* a / b
TrueDiv(a, b) ==
  IF a = ZeroDivisionError \/ b = ZeroDivisionError THEN ZeroDivisionError
  ELSE IF b.num = 0 THEN ZeroDivisionError
  ELSE IF b.num < 0 THEN Rat(-(a.num * b.den), a.den * (-b.num))
  ELSE Rat(a.num * b.den, a.den * b.num)

\* a + b
Plus(a, b) ==
  IF a = ZeroDivisionError \/ b = ZeroDivisionError THEN ZeroDivisionError
  ELSE Rat(a.num * b.den + b.num * a.den, a.den * b.den)

\* a * b
Times(a, b) ==
  IF a = ZeroDivisionError \/ b = ZeroDivisionError THEN ZeroDivisionError
  ELSE Rat(a.num * b.num, a.den * b.den)

\* (later - earlier).total_seconds()
TotalSeconds(later, earlier) ==
  Plus(Whole((later.day - earlier.day) * 86400 + (later.sec - earlier.sec)),
       Rat(later.usec - earlier.usec, 1000000))

(***************************************************************************)
(* The text the model's comments, titles and timestamps are made of.       *)
(***************************************************************************)
GoalBody == <<"#"," ","G","o","a","l",":"," ","s","h","i","p"," ","X">>

ReviewBody == <<"#"," ","R","e","v","i","e","w">>

ReflectionBody ==
  <<"#"," ","R","e","f","l","e","c","t","i","o","n",":"," ","w","e","n","t"," ","w","e","l","l">>

PaddedReviewBody == <<" ","#","r","e","v","i","e","w"," ","\n">>

SubheadingReviewBody == <<"#","#"," ","R","e","v","i","e","w">>

GoalReflectionBody ==
  <<"#","#"," ","g","o","a","l"," ","r","e","f","l","e","c","t","i","o","n">>

GoalPrefix == <<"#"," ","G","o","a","l"," ">>

ReflectionPrefix == <<"#"," ","R","e","f","l","e","c","t","i","o","n"," ">>

GitlabCom == <<"g","i","t","l","a","b",".","c","o","m">>

GitlabExampleCom == <<"g","i","t","l","a","b",".","e","x","a","m","p","l","e",".","c","o","m">>

GroupSubProj == << <<"g","r","o","u","p">>, <<"s","u","b">>, <<"p","r","o","j">> >>

GroupProj == << <<"g","r","o","u","p">>, <<"p","r","o","j">> >>

TopGroupSubProj == << <<"t","o","p">>, <<"g","r","o","u","p">>, <<"s","u","b">>, <<"p","r","o","j">> >>

\* https://<host>/<namespace path>/-/<kind>/<id>
Url(host, path, kind, id) ==
  <<"h","t","t","p","s",":","/","/">> \o host \o <<"/">> \o JoinWith(path, "/")
    \o <<"/","-","/">> \o kind \o <<"/">> \o id

\* an issue of gitlab.com/group/sub/proj
IssueUrl(id) == Url(GitlabCom, GroupSubProj, Issues, <<id>>)

Jan1 == <<"2","0","2","4","-","0","1","-","0","1","T","0","0",":","0","0",":","0","0",".","0","0","0","Z">>

Jan1Half == <<"2","0","2","4","-","0","1","-","0","1","T","0","0",":","0","0",":","0","0",".","5","0","0","Z">>

Jan2Noon == <<"2","0","2","4","-","0","1","-","0","2","T","1","2",":","0","0",":","0","0",".","0","0","0","Z">>

Timestamps == {Jan1, Jan1Half, Jan2Noon}

Usernames == {"alice", "bob"}

\* the sequences of at most n elements of a set
SeqsUpTo(S, n) == UNION {[1..k -> S] : k \in 0..n}

\* epic notes: the remote gives every note its own id
Notes(kinds) ==
  [k \in 1..Len(kinds) |->
     [id |-> k, author |-> [username |-> kinds[k][1]], created_at |-> kinds[k][2],
      body |-> kinds[k][3]]]

(***************************************************************************)
(* The bounds of the model and the values its inputs are drawn from.       *)
(***************************************************************************)
\* the comments of one split_sprint_comments call
MaxComments == 3

\* the planning and the review comments a calculator is given
MaxPlanning == 2

MaxReview == 1

\* the merge requests a calculator is given
MaxMRs == 4

\* the URLs in the comments _extract_issue_info_from_comments is given
MaxUrls == 2

\* the epics of the group
MaxSprints == 2

SplitBodies ==
  {GoalBody, ReviewBody, ReflectionBody, PaddedReviewBody, SubheadingReviewBody,
   GoalReflectionBody}

PlanTwoBody == GoalPrefix \o IssueUrl("2") \o <<" ">> \o IssueUrl("1")

ReflectThreeBody == ReflectionPrefix \o Url(GitlabCom, GroupSubProj, WorkItems, <<"3">>)

CalcBodies == {GoalBody, PlanTwoBody, ReflectThreeBody}

UrlShapes ==
  [host : {GitlabCom, GitlabExampleCom},
   path : {GroupSubProj, GroupProj, TopGroupSubProj},
   kind : {Issues, WorkItems},
   id   : {<<"4","2">>}]

\* a comment body that mentions the URLs of the given shapes, in order
RECURSIVE Mention(_)
Mention(shapes) ==
  IF Len(shapes) = 0 THEN <<>>
  ELSE <<" ">> \o Url(shapes[1].host, shapes[1].path, shapes[1].kind, shapes[1].id)
         \o Mention(Tail(shapes))

\* the comment bodies whose matches are computed once
Bodies == SplitBodies \cup CalcBodies

SprintOneTitle == <<"S","p","r","i","n","t"," ","1","/","2","4",":"," ","a">>

SprintTwoTitle == <<"S","p","r","i","n","t"," ","2","/","2","4",":"," ","b">>

SprintThreeTitle == <<"S","p","r","i","n","t"," ","3","/","2","4",":"," ","c">>

RoadmapTitle == <<"R","o","a","d","m","a","p">>

Titles == {SprintOneTitle, SprintTwoTitle, SprintThreeTitle, RoadmapTitle}

(***************************************************************************)
(* The compiled patterns and the timestamp parser, applied to the text of  *)
(* the model.                                                              *)
(***************************************************************************)
goal_pattern == [b \in Bodies |-> HeadingMatch(b, <<"g","o","a","l">>)]

review_splitter_pattern ==
  [b \in Bodies |-> The({SplitterMatch(stripped) : stripped \in {Strip(b)}})]

reflection_pattern ==
  [b \in Bodies |-> HeadingMatch(b, <<"r","e","f","l","e","c","t","i","o","n">>)]

issue_url_pattern == [b \in Bodies |-> FindAllFrom(b, 1)]

\* issue_url_pattern.findall(body)
FindAll(body) ==
  IF body \in Bodies THEN issue_url_pattern[body] ELSE FindAllFrom(body, 1)

sprint_pattern == [t \in Titles |-> SprintTitleMatch(t)]

strptime == [t \in Timestamps |-> Strptime(t)]

(***************************************************************************)
(* GitLabSprintHelper.  A method that talks to GitLab takes the remote's   *)
(* data gl and yields [val, calls]: its value when every remote call       *)
(* succeeds, and the remote calls it issues, in order.                     *)
(***************************************************************************)
\* sorted(comments, key=created_at parsed): a stable sort
\* the place of comments[k] in the sorted list: after the comments with an earlier
\* key and after those before it with the same key
SortedPlace(comments, k) ==
  Cardinality({j \in 1..Len(comments) :
                 \/ DateTimeLess(strptime[comments[j].created_at],
                                 strptime[comments[k].created_at])
                 \/ /\ j <= k
                    /\ ~DateTimeLess(strptime[comments[k].created_at],
                                     strptime[comments[j].created_at])})

sorted_comments(comments) ==
  [i \in 1..Len(comments) |->
     comments[CHOOSE k \in 1..Len(comments) : SortedPlace(comments, k) = i]]

\* the loop with "review_section_started and" left out of its second test
RECURSIVE ScanCommentsAnySection(_, _, _, _, _)
ScanCommentsAnySection(sorted, k, review_section_started, planning_comments, review_comments) ==
  IF k > Len(sorted) THEN <<planning_comments, review_comments>>
  ELSE LET comment == sorted[k]
       IN  IF review_splitter_pattern[comment.body]
             THEN ScanCommentsAnySection(sorted, k + 1, TRUE, planning_comments,
                                         review_comments)
           ELSE IF reflection_pattern[comment.body]
             THEN ScanCommentsAnySection(sorted, k + 1, review_section_started,
                                         planning_comments, Append(review_comments, comment))
           ELSE IF goal_pattern[comment.body]
             THEN ScanCommentsAnySection(sorted, k + 1, review_section_started,
                                         Append(planning_comments, comment), review_comments)
           ELSE ScanCommentsAnySection(sorted, k + 1, review_section_started,
                                       planning_comments, review_comments)

\* the loop of split_sprint_comments from the k-th sorted comment on
RECURSIVE ScanComments(_, _, _, _, _)
ScanComments(sorted, k, review_section_started, planning_comments, review_comments) ==
  IF k > Len(sorted) THEN <<planning_comments, review_comments>>
  ELSE LET comment == sorted[k]
       IN  IF review_splitter_pattern[comment.body]
             THEN ScanComments(sorted, k + 1, TRUE, planning_comments, review_comments)
           ELSE IF review_section_started /\ reflection_pattern[comment.body]
             THEN ScanComments(sorted, k + 1, review_section_started, planning_comments,
                               Append(review_comments, comment))
           ELSE IF goal_pattern[comment.body]
             THEN ScanComments(sorted, k + 1, review_section_started,
                               Append(planning_comments, comment), review_comments)
           ELSE ScanComments(sorted, k + 1, review_section_started, planning_comments,
                             review_comments)

\* split_sprint_comments that scans the comments in the order given
split_sprint_comments_unsorted(comments) ==
  ScanComments(comments, 1, FALSE, <<>>, <<>>)

split_sprint_comments(comments) ==
  The({ScanComments(sorted, 1, FALSE, <<>>, <<>>) : sorted \in {sorted_comments(comments)}})

\* the notes of the discussions that are not system notes
RECURSIVE HumanNotes(_)
HumanNotes(discussions) ==
  IF Len(discussions) = 0 THEN <<>>
  ELSE SelectSeq(discussions[1].notes, LAMBDA note : ~note.system)
         \o HumanNotes(Tail(discussions))

fetch_mr_comments(gl, merge_request) ==
  [val   |-> HumanNotes(gl.discussions[<<merge_request.project_id, merge_request.iid>>]),
   calls |-> << <<"projects.get", <<merge_request.project_id>> >>,
                <<"project.mergerequests.get", <<merge_request.project_id, merge_request.iid>> >>,
                <<"mr.discussions.list", <<merge_request.project_id, merge_request.iid>> >> >>]

\* the remote calls of fetch_mr_comments over the merge requests, in order
RECURSIVE FetchCalls(_, _)
FetchCalls(gl, mrs) ==
  IF Len(mrs) = 0 THEN <<>>
  ELSE fetch_mr_comments(gl, mrs[1]).calls \o FetchCalls(gl, Tail(mrs))

\* calculate_mr_rate without "if team_members else 0"
calculate_mr_rate_unguarded(planning_comments, mrs_in_sprint) ==
  LET team_members ==
        {planning_comments[k].author.username : k \in 1..Len(planning_comments)}
  IN  TrueDiv(Whole(Len(mrs_in_sprint)), Whole(Cardinality(team_members)))

\* calculate_mr_rate that divides by the number of planning comments
calculate_mr_rate_per_comment(planning_comments, mrs_in_sprint) ==
  IF Len(planning_comments) # 0
    THEN TrueDiv(Whole(Len(mrs_in_sprint)), Whole(Len(planning_comments)))
    ELSE Whole(0)

calculate_mr_rate(planning_comments, mrs_in_sprint) ==
  LET team_members ==
        {planning_comments[k].author.username : k \in 1..Len(planning_comments)}
  IN  IF team_members # {}
        THEN TrueDiv(Whole(Len(mrs_in_sprint)), Whole(Cardinality(team_members)))
        ELSE Whole(0)

calculate_mr_completion_rate(mrs_in_sprint) ==
  LET merged_mrs == SelectSeq(mrs_in_sprint, LAMBDA mr : mr.state = "merged")
  IN  IF Len(mrs_in_sprint) = 0 THEN Whole(0)
      ELSE TrueDiv(Whole(Len(merged_mrs)), Whole(Len(mrs_in_sprint)))

\* total_time_to_merge after the loop over the merged merge requests
RECURSIVE TotalTimeToMerge(_)
TotalTimeToMerge(merged_mrs) ==
  IF Len(merged_mrs) = 0 THEN Whole(0)
  ELSE Plus(TotalTimeToMerge(SubSeq(merged_mrs, 1, Len(merged_mrs) - 1)),
            TotalSeconds(strptime[merged_mrs[Len(merged_mrs)].merged_at],
                         strptime[merged_mrs[Len(merged_mrs)].created_at]))

calculate_average_time_to_merge(mrs_in_sprint) ==
  LET merged_mrs == SelectSeq(mrs_in_sprint, LAMBDA mr : mr.state = "merged")
  IN  IF Len(merged_mrs) = 0 THEN Whole(0)
      ELSE TrueDiv(TrueDiv(TotalTimeToMerge(merged_mrs), Whole(Len(merged_mrs))),
                   Whole(3600))

\* the sum of the lengths of the lists
RECURSIVE SumLen(_)
SumLen(lists) == IF Len(lists) = 0 THEN 0 ELSE Len(lists[1]) + SumLen(Tail(lists))

calculate_code_review_efficiency(gl, mrs_in_sprint) ==
  LET comments == [k \in 1..Len(mrs_in_sprint) |-> fetch_mr_comments(gl, mrs_in_sprint[k]).val]
      total_discussions == SumLen(comments)
      mr_with_discussions == Cardinality({k \in 1..Len(comments) : Len(comments[k]) > 0})
      n == Len(mrs_in_sprint)
  IN  [val   |-> IF n = 0 THEN <<Whole(0), Whole(0)>>
                 ELSE <<TrueDiv(Whole(total_discussions), Whole(n)),
                        Times(TrueDiv(Whole(n - mr_with_discussions), Whole(n)), Whole(100))>>,
       calls |-> FetchCalls(gl, mrs_in_sprint)]

\* IssueInfoOf with full_match.split("/")[:-2]
IssueInfoOfDropTwo(body) ==
  The({[k \in 1..Len(matches) |->
          The({<<JoinWith(project_path, "/"), matches[k][3]>> :
                 project_path \in {DropLast(SplitOn(matches[k][1], "/"), 2)}})] :
         matches \in {FindAll(body)}})

\* the (project path, issue id) pairs of the matches in one comment body
IssueInfoOf(body) ==
  The({[k \in 1..Len(matches) |->
          The({<<JoinWith(project_path, "/"), matches[k][3]>> :
                 project_path \in {DropLast(SplitOn(matches[k][1], "/"), 3)}})] :
         matches \in {FindAll(body)}})

RECURSIVE extract_issue_info_from_comments(_)
extract_issue_info_from_comments(comments) ==
  IF Len(comments) = 0 THEN <<>>
  ELSE IssueInfoOf(comments[1].body) \o extract_issue_info_from_comments(Tail(comments))

\* the remote calls of the loop over the issue infos, in order
RECURSIVE IssueCalls(_)
IssueCalls(issue_infos) ==
  IF Len(issue_infos) = 0 THEN <<>>
  ELSE << <<"projects.get", <<issue_infos[1][1]>> >>,
          <<"project.issues.get", issue_infos[1]>> >> \o IssueCalls(Tail(issue_infos))

PlannedIssueCompletionRate(gl, issue_infos) ==
  LET completed_issues ==
        Cardinality({k \in 1..Len(issue_infos) : gl.issues[issue_infos[k]] \in {"closed", "merged"}})
  IN  [val   |-> IF Len(issue_infos) = 0 THEN Whole(0)
                 ELSE TrueDiv(Whole(completed_issues), Whole(Len(issue_infos))),
       calls |-> IssueCalls(issue_infos)]

calculate_planned_issue_completion_rate(gl, planning_comments) ==
  The({PlannedIssueCompletionRate(gl, issue_infos) :
         issue_infos \in {extract_issue_info_from_comments(planning_comments)}})

\* calculate_scope_change_rate that counts the planned references as a list
calculate_scope_change_rate_listed(planning_comments, review_comments) ==
  LET initial_planned_issue_info == extract_issue_info_from_comments(planning_comments)
      all_mentioned_issue_info ==
        Range(extract_issue_info_from_comments(review_comments \o planning_comments))
      new_issues == all_mentioned_issue_info \ Range(initial_planned_issue_info)
  IN  IF Len(initial_planned_issue_info) = 0 THEN <<Whole(0), Whole(0)>>
      ELSE <<Whole(Cardinality(new_issues)),
             TrueDiv(Whole(Cardinality(new_issues)), Whole(Len(initial_planned_issue_info)))>>

calculate_scope_change_rate(planning_comments, review_comments) ==
  LET initial_planned_issue_info == Range(extract_issue_info_from_comments(planning_comments))
      all_mentioned_issue_info ==
        Range(extract_issue_info_from_comments(review_comments \o planning_comments))
      new_issues == all_mentioned_issue_info \ initial_planned_issue_info
  IN  IF initial_planned_issue_info = {} THEN <<Whole(0), Whole(0)>>
      ELSE <<Whole(Cardinality(new_issues)),
             TrueDiv(Whole(Cardinality(new_issues)),
                     Whole(Cardinality(initial_planned_issue_info)))>>

calculate_mr_collaboration_score(gl, mrs_in_sprint) ==
  LET comments == [k \in 1..Len(mrs_in_sprint) |-> fetch_mr_comments(gl, mrs_in_sprint[k]).val]
      unique_contributors ==
        UNION {{comments[k][j].author.id : j \in 1..Len(comments[k])} : k \in 1..Len(comments)}
      total_participants == SumLen(comments)
      total_discussions == Cardinality({k \in 1..Len(comments) : Len(comments[k]) > 0})
  IN  [val   |-> <<Whole(Cardinality(unique_contributors)),
                   IF total_discussions # 0
                     THEN TrueDiv(Whole(total_participants), Whole(total_discussions))
                     ELSE Whole(0)>>,
       calls |-> FetchCalls(gl, mrs_in_sprint)]

calculate_work_distribution(mrs_in_sprint) ==
  [author_username \in {mrs_in_sprint[k].author.username : k \in 1..Len(mrs_in_sprint)} |->
     Cardinality({k \in 1..Len(mrs_in_sprint) :
                    mrs_in_sprint[k].author.username = author_username})]

\* list_all_sprints: the epics whose title the pattern matches, in the remote's order
list_all_sprints(gl) ==
  [val   |-> SelectSeq(gl.epics, LAMBDA sprint : sprint_pattern[sprint.title]),
   calls |-> << <<"group.epics.list", <<>> >> >>]

\* fetch_epic_comments that lists the notes of every epic of the group
fetch_epic_comments_of_group(gl, epic) ==
  [val   |-> gl.notes[1] \o gl.notes[2] \o gl.notes[3] \o gl.notes[4],
   calls |-> << <<"epic.notes.list", <<epic.id>> >> >>]

fetch_epic_comments(gl, epic) ==
  [val   |-> gl.notes[epic.id],
   calls |-> << <<"epic.notes.list", <<epic.id>> >> >>]

fetch_created_mrs_in_sprint(gl, sprint) ==
  [val   |-> gl.created[<<sprint.start_date, sprint.end_date>>],
   calls |-> << <<"group.mergerequests.list",
                  <<"created_after", sprint.start_date, "created_before", sprint.end_date>> >> >>]

fetch_active_mrs_in_sprint(gl, sprint) ==
  [val   |-> gl.updated[<<sprint.start_date, sprint.end_date>>],
   calls |-> << <<"group.mergerequests.list",
                  <<"updated_after", sprint.start_date, "updated_before", sprint.end_date>> >> >>]

\* the metrics dictionary of calculate_sprint_metrics and the remote calls of the
\* calculators, in the order the method makes them
SprintMetrics(gl, sprint, split, new_mrs, active_mrs) ==
  [val |->
     [sprint_name |-> sprint.title,
      start_date |-> sprint.start_date,
      end_date |-> sprint.end_date,
      total_planning_comments |-> Len(split[1]),
      total_review_comments |-> Len(split[2]),
      new_mrs_in_sprint |-> Len(new_mrs),
      all_active_mrs_in_sprint |-> Len(active_mrs),
      mr_rate |-> calculate_mr_rate(split[1], new_mrs),
      mr_completion_rate |-> calculate_mr_completion_rate(new_mrs),
      average_time_to_merge |-> calculate_average_time_to_merge(active_mrs),
      average_discussions_per_mr |-> calculate_code_review_efficiency(gl, active_mrs).val[1],
      percent_mrs_dwithout_iscussions |->
        calculate_code_review_efficiency(gl, active_mrs).val[2],
      planned_issue_completion_rate |->
        calculate_planned_issue_completion_rate(gl, split[1]).val,
      scope_change_new_issues |-> calculate_scope_change_rate(split[1], split[2])[1],
      scope_change_rate |-> calculate_scope_change_rate(split[1], split[2])[2],
      collaboration_score_unique_contributors |->
        calculate_mr_collaboration_score(gl, active_mrs).val[1],
      collaboration_score_avg_participants |->
        calculate_mr_collaboration_score(gl, active_mrs).val[2],
      work_distribution |-> calculate_work_distribution(active_mrs)],
   calls |->
     calculate_code_review_efficiency(gl, active_mrs).calls
       \o calculate_mr_collaboration_score(gl, active_mrs).calls
       \o calculate_planned_issue_completion_rate(gl, split[1]).calls]

calculate_sprint_metrics(gl, sprint) ==
  The({[val   |-> metrics.val,
        calls |-> fetch_epic_comments(gl, sprint).calls
                    \o fetch_created_mrs_in_sprint(gl, sprint).calls
                    \o fetch_active_mrs_in_sprint(gl, sprint).calls
                    \o metrics.calls] :
         metrics \in
           {SprintMetrics(gl, sprint, split, fetch_created_mrs_in_sprint(gl, sprint).val,
                          fetch_active_mrs_in_sprint(gl, sprint).val) :
              split \in {split_sprint_comments(fetch_epic_comments(gl, sprint).val)}}})

\* the loop body of get_mr_rate_for_all_sprints with the active merge requests
\* in place of the created ones
sprint_mr_rate_of_active(gl, sprint) ==
  [val   |-> [sprint_name |-> sprint.title,
              start_date |-> sprint.start_date,
              end_date |-> sprint.end_date,
              mr_rate |-> calculate_mr_rate(
                            split_sprint_comments(fetch_epic_comments(gl, sprint).val)[1],
                            fetch_active_mrs_in_sprint(gl, sprint).val)],
   calls |-> fetch_epic_comments(gl, sprint).calls
               \o fetch_active_mrs_in_sprint(gl, sprint).calls]

\* the loop body of get_mr_rate_for_all_sprints: the record of one sprint
sprint_mr_rate(gl, sprint) ==
  [val   |-> [sprint_name |-> sprint.title,
              start_date |-> sprint.start_date,
              end_date |-> sprint.end_date,
              mr_rate |-> calculate_mr_rate(
                            split_sprint_comments(fetch_epic_comments(gl, sprint).val)[1],
                            fetch_created_mrs_in_sprint(gl, sprint).val)],
   calls |-> fetch_epic_comments(gl, sprint).calls
               \o fetch_created_mrs_in_sprint(gl, sprint).calls]

\* zip(dates, mr_rates)
Zip(dates, mr_rates) ==
  [k \in 1..(IF Len(dates) <= Len(mr_rates) THEN Len(dates) ELSE Len(mr_rates)) |->
     <<dates[k], mr_rates[k]>>]

\* {date: rate for date, rate in pairs}: a later pair replaces an earlier one of
\* the same key
DictOf(pairs) ==
  [date \in {pairs[k][1] : k \in 1..Len(pairs)} |->
     pairs[CHOOSE k \in 1..Len(pairs) :
             /\ pairs[k][1] = date
             /\ \A j \in (k + 1)..Len(pairs) : pairs[j][1] # date][2]]

\* the mapping streamlit_app.py passes to st.line_chart
line_chart_data(data) ==
  DictOf(Zip([k \in 1..Len(data) |-> data[k].start_date],
             [k \in 1..Len(data) |-> data[k].mr_rate]))

(***************************************************************************)
(* The values the calculators are called with.                             *)
(***************************************************************************)
SplitComments ==
  {Notes(kinds) : kinds \in SeqsUpTo({"alice"} \X Timestamps \X SplitBodies, MaxComments)}

CalcKinds == Usernames \X {Jan1} \X {GoalBody, PlanTwoBody, ReflectThreeBody}

PlanningLists == {Notes(kinds) : kinds \in SeqsUpTo(CalcKinds, MaxPlanning)}

ReviewLists == {Notes(kinds) : kinds \in SeqsUpTo(CalcKinds, MaxReview)}

MergedMR ==
  [iid |-> 1, project_id |-> 10, state |-> "merged", created_at |-> Jan1,
   merged_at |-> Jan2Noon, author |-> [username |-> "alice"]]

OpenedMR ==
  [iid |-> 2, project_id |-> 10, state |-> "opened", created_at |-> Jan1Half,
   merged_at |-> <<>>, author |-> [username |-> "bob"]]

QuickMR ==
  [iid |-> 3, project_id |-> 11, state |-> "merged", created_at |-> Jan1,
   merged_at |-> Jan1Half, author |-> [username |-> "alice"]]

MRs == {MergedMR, OpenedMR, QuickMR}

MRLists == SeqsUpTo(MRs, MaxMRs)

MRKeys == {<<mr.project_id, mr.iid>> : mr \in MRs}

SystemNote == [system |-> TRUE, author |-> [id |-> 1]]

HumanNote(id) == [system |-> FALSE, author |-> [id |-> id]]

\* what mr.discussions.list answers, per merge request
DiscussionTables ==
  {[key \in MRKeys |-> <<>>],
   [key \in MRKeys |-> << [notes |-> <<SystemNote>>] >>],
   [key \in MRKeys |->
      IF key = <<10, 1>>
        THEN << [notes |-> <<HumanNote(7), SystemNote>>], [notes |-> <<HumanNote(8)>>] >>
      ELSE IF key = <<10, 2>> THEN << [notes |-> <<SystemNote>>] >>
      ELSE << [notes |-> <<HumanNote(7)>>] >>]}

IssueRefs ==
  {<<JoinWith(GroupSubProj, "/"), <<id>> >> : id \in {"1", "2", "3"}}

\* what project.issues.get answers, per issue
IssueTables ==
  {[ref \in IssueRefs |-> "opened"],
   [ref \in IssueRefs |->
      IF ref[2] = <<"1">> THEN "closed" ELSE IF ref[2] = <<"2">> THEN "merged" ELSE "opened"]}

\* the two comments that mention the URLs of the shapes, the first `cut` of them in
\* the first comment
UrlComments(shapes, cut) ==
  Notes(<< <<"alice", Jan1, <<"s","e","e">> \o Mention(SubSeq(shapes, 1, cut))>>,
           <<"bob", Jan1, <<"s","e","e">> \o Mention(SubSeq(shapes, cut + 1, Len(shapes)))>> >>)

(***************************************************************************)
(* The data of the GitLab group the runs read.                             *)
(***************************************************************************)
SprintOne ==
  [id |-> 1, title |-> SprintOneTitle, start_date |-> "2024-01-01", end_date |-> "2024-01-14"]

SprintTwo ==
  [id |-> 2, title |-> SprintTwoTitle, start_date |-> "2024-01-15", end_date |-> "2024-01-28"]

\* a sprint that starts on the day SprintOne starts
SprintThree ==
  [id |-> 3, title |-> SprintThreeTitle, start_date |-> "2024-01-01", end_date |-> "2024-01-28"]

Roadmap ==
  [id |-> 4, title |-> RoadmapTitle, start_date |-> "2024-01-01", end_date |-> "2024-12-31"]

Epics == {SprintOne, SprintTwo, SprintThree, Roadmap}

\* what group.epics.list answers: at most MaxSprints epics, none of them twice
EpicLists ==
  {l \in SeqsUpTo(Epics, MaxSprints) : \A j, k \in 1..Len(l) : l[j] = l[k] => j = k}

Windows == {<<e.start_date, e.end_date>> : e \in Epics}

WindowOf(e) == <<e.start_date, e.end_date>>

PlannedSprintNotes ==
  Notes(<< <<"alice", Jan1, PlanTwoBody>>, <<"bob", Jan1Half, ReviewBody>>,
           <<"bob", Jan2Noon, ReflectThreeBody>> >>)

TwoGoalsNotes == Notes(<< <<"alice", Jan1, GoalBody>>, <<"bob", Jan1, GoalBody>> >>)

OneGoalNotes == Notes(<< <<"bob", Jan1, GoalBody>> >>)

\* the notes, merge requests, discussions and issues of the group
DataA ==
  [notes |-> [id \in 1..4 |->
                IF id = 1 THEN PlannedSprintNotes
                ELSE IF id = 2 THEN TwoGoalsNotes
                ELSE IF id = 3 THEN OneGoalNotes ELSE <<>>],
   created |-> [w \in Windows |->
                  IF w = WindowOf(SprintOne) THEN <<MergedMR, OpenedMR>>
                  ELSE IF w = WindowOf(SprintTwo) THEN <<QuickMR>>
                  ELSE <<MergedMR, OpenedMR, QuickMR>>],
   updated |-> [w \in Windows |->
                  IF w = WindowOf(SprintOne) THEN <<MergedMR>>
                  ELSE IF w = WindowOf(SprintTwo) THEN <<QuickMR, OpenedMR>>
                  ELSE <<MergedMR>>],
   discussions |->
     [key \in MRKeys |->
        IF key = <<10, 1>>
          THEN << [notes |-> <<HumanNote(7), SystemNote>>], [notes |-> <<HumanNote(8)>>] >>
        ELSE IF key = <<10, 2>> THEN << [notes |-> <<SystemNote>>] >>
        ELSE << [notes |-> <<HumanNote(7)>>] >>],
   issues |->
     [ref \in IssueRefs |->
        IF ref[2] = <<"1">> THEN "closed" ELSE IF ref[2] = <<"2">> THEN "merged" ELSE "opened"]]

\* DataA with other data for every sprint but SprintOne
DataB ==
  [notes |-> [id \in 1..4 |->
                IF id = 1 THEN PlannedSprintNotes
                ELSE IF id = 3 THEN TwoGoalsNotes ELSE <<>>],
   created |-> [w \in Windows |->
                  IF w = WindowOf(SprintOne) THEN <<MergedMR, OpenedMR>> ELSE <<>>],
   updated |-> [w \in Windows |->
                  IF w = WindowOf(SprintOne) THEN <<MergedMR>> ELSE <<OpenedMR>>],
   discussions |->
     [key \in MRKeys |->
        IF key = <<10, 1>>
          THEN << [notes |-> <<HumanNote(7), SystemNote>>], [notes |-> <<HumanNote(8)>>] >>
        ELSE <<>>],
   issues |-> DataA.issues]

\* DataA with other data for SprintOne
DataC ==
  [notes |-> [id \in 1..4 |-> IF id = 1 THEN OneGoalNotes ELSE DataA.notes[id]],
   created |-> [w \in Windows |->
                  IF w = WindowOf(SprintOne) THEN <<QuickMR>> ELSE DataA.created[w]],
   updated |-> [w \in Windows |->
                  IF w = WindowOf(SprintOne) THEN <<>> ELSE DataA.updated[w]],
   discussions |-> DataA.discussions,
   issues |-> [ref \in IssueRefs |-> "opened"]]

Datasets == {DataA, DataB, DataC}

Remotes ==
  {[epics |-> l, notes |-> d.notes, created |-> d.created, updated |-> d.updated,
    discussions |-> d.discussions, issues |-> d.issues] : l \in EpicLists, d \in Datasets}

(***************************************************************************)
(* The state: a caller of the helper's calculators, and the two runs over  *)
(* the sprints of the group.                                               *)
(***************************************************************************)
VARIABLES
  pc,      \* "idle", or "returned" once the method has returned
  method,  \* the method that was called
  args,    \* its arguments
  ret,     \* what it returned
  again,   \* split_sprint_comments called once more on what it returned
  gl,      \* the remote's data during the runs
  runs,    \* get_metrics_for_all_sprints and get_mr_rate_for_all_sprints, each
           \* with its position, locals, remote calls and result
  chart    \* what st.line_chart was given

vars == <<pc, method, args, ret, again, gl, runs, chart>>

\* the methods that run over the sprints
Methods == {"get_metrics_for_all_sprints", "get_mr_rate_for_all_sprints"}

\* the value of `returned` while the caller has no list, and of `chart` while
\* st.line_chart has not been called
Nothing == [nothing |-> TRUE]

\* a method that has not been called
NotCalled ==
  [pc |-> "not called", sprints |-> <<>>, k |-> 1, all_sprint_records |-> <<>>,
   returned |-> Nothing, calls |-> <<>>, failed |-> 0]

(***************************************************************************)
(* The first specification: a caller invokes the helper's calculators, one *)
(* call at a time, on values of the sets above.                            *)
(***************************************************************************)
Init ==
  /\ pc = "idle"
  /\ method = "none"
  /\ args = <<>>
  /\ ret = <<>>
  /\ again = <<>>
  /\ gl = Nothing
  /\ runs = [m \in Methods |-> NotCalled]
  /\ chart = Nothing

SplitSprintComments ==
  /\ pc = "idle"
  /\ \E comments \in SplitComments :
       /\ args' = <<comments>>
       /\ ret' = split_sprint_comments(comments)
  /\ method' = "split_sprint_comments"
  /\ pc' = "returned"
  /\ again' = <<>>
  /\ UNCHANGED <<gl, runs, chart>>

\* the comments of both lists in chronological order, with or without the
\* "# Review" comments of the first call
Classified(comments, planning_comments, review_comments, markers) ==
  SelectSeq(sorted_comments(comments),
            LAMBDA c : \/ c \in Range(planning_comments)
                       \/ c \in Range(review_comments)
                       \/ markers /\ review_splitter_pattern[c.body])

SplitAgain ==
  /\ pc = "returned"
  /\ method = "split_sprint_comments"
  /\ again = <<>>
  /\ \E markers \in BOOLEAN :
       LET comments == Classified(args[1], ret[1], ret[2], markers)
       IN  again' = << [markers |-> markers, comments |-> comments,
                        ret |-> split_sprint_comments(comments)] >>
  /\ UNCHANGED <<pc, method, args, ret, gl, runs, chart>>

ExtractIssueInfo ==
  /\ pc = "idle"
  /\ \E shapes \in SeqsUpTo(UrlShapes, MaxUrls) :
       \E cut \in 0..Len(shapes) :
         /\ args' = <<UrlComments(shapes, cut), shapes>>
         /\ ret' = extract_issue_info_from_comments(UrlComments(shapes, cut))
  /\ method' = "_extract_issue_info_from_comments"
  /\ pc' = "returned"
  /\ again' = <<>>
  /\ UNCHANGED <<gl, runs, chart>>

CalculateMrRate ==
  /\ pc = "idle"
  /\ \E planning_comments \in PlanningLists :
       \E mrs_in_sprint \in MRLists :
         /\ args' = <<planning_comments, mrs_in_sprint>>
         /\ ret' = calculate_mr_rate(planning_comments, mrs_in_sprint)
  /\ method' = "calculate_mr_rate"
  /\ pc' = "returned"
  /\ again' = <<>>
  /\ UNCHANGED <<gl, runs, chart>>

CalculateMrCompletionRate ==
  /\ pc = "idle"
  /\ \E mrs_in_sprint \in MRLists :
       /\ args' = <<mrs_in_sprint>>
       /\ ret' = calculate_mr_completion_rate(mrs_in_sprint)
  /\ method' = "calculate_mr_completion_rate"
  /\ pc' = "returned"
  /\ again' = <<>>
  /\ UNCHANGED <<gl, runs, chart>>

CalculateAverageTimeToMerge ==
  /\ pc = "idle"
  /\ \E mrs_in_sprint \in MRLists :
       /\ args' = <<mrs_in_sprint>>
       /\ ret' = calculate_average_time_to_merge(mrs_in_sprint)
  /\ method' = "calculate_average_time_to_merge"
  /\ pc' = "returned"
  /\ again' = <<>>
  /\ UNCHANGED <<gl, runs, chart>>

CalculateCodeReviewEfficiency ==
  /\ pc = "idle"
  /\ \E mrs_in_sprint \in MRLists :
       \E discussions \in DiscussionTables :
         /\ args' = <<mrs_in_sprint, discussions>>
         /\ ret' = calculate_code_review_efficiency([discussions |-> discussions],
                                                    mrs_in_sprint).val
  /\ method' = "calculate_code_review_efficiency"
  /\ pc' = "returned"
  /\ again' = <<>>
  /\ UNCHANGED <<gl, runs, chart>>

CalculatePlannedIssueCompletionRate ==
  /\ pc = "idle"
  /\ \E planning_comments \in PlanningLists :
       \E issues \in IssueTables :
         /\ args' = <<planning_comments, issues>>
         /\ ret' = calculate_planned_issue_completion_rate([issues |-> issues],
                                                           planning_comments).val
  /\ method' = "calculate_planned_issue_completion_rate"
  /\ pc' = "returned"
  /\ again' = <<>>
  /\ UNCHANGED <<gl, runs, chart>>

CalculateScopeChangeRate ==
  /\ pc = "idle"
  /\ \E planning_comments \in PlanningLists :
       \E review_comments \in ReviewLists :
         /\ args' = <<planning_comments, review_comments>>
         /\ ret' = calculate_scope_change_rate(planning_comments, review_comments)
  /\ method' = "calculate_scope_change_rate"
  /\ pc' = "returned"
  /\ again' = <<>>
  /\ UNCHANGED <<gl, runs, chart>>

CalculateMrCollaborationScore ==
  /\ pc = "idle"
  /\ \E mrs_in_sprint \in MRLists :
       \E discussions \in DiscussionTables :
         /\ args' = <<mrs_in_sprint, discussions>>
         /\ ret' = calculate_mr_collaboration_score([discussions |-> discussions],
                                                    mrs_in_sprint).val
  /\ method' = "calculate_mr_collaboration_score"
  /\ pc' = "returned"
  /\ again' = <<>>
  /\ UNCHANGED <<gl, runs, chart>>

\* the caller drops the result and is free to call again
Forget ==
  /\ pc = "returned"
  /\ pc' = "idle"
  /\ method' = "none"
  /\ args' = <<>>
  /\ ret' = <<>>
  /\ again' = <<>>
  /\ UNCHANGED <<gl, runs, chart>>

Next ==
  \/ SplitSprintComments
  \/ SplitAgain
  \/ ExtractIssueInfo
  \/ CalculateMrRate
  \/ CalculateMrCompletionRate
  \/ CalculateAverageTimeToMerge
  \/ CalculateCodeReviewEfficiency
  \/ CalculatePlannedIssueCompletionRate
  \/ CalculateScopeChangeRate
  \/ CalculateMrCollaborationScore
  \/ Forget

Spec == Init /\ [][Next]_vars

(***************************************************************************)
(* The second specification: get_metrics_for_all_sprints and               *)
(* get_mr_rate_for_all_sprints run over the sprints of one group, one      *)
(* after the other in either order, and streamlit_app.py charts what the   *)
(* second returns.  Every remote call may fail; `failed` is the position   *)
(* in `calls` of the call that raised, 0 while none has.                   *)
(***************************************************************************)
\* sprints = self.list_all_sprints()
ListSprints(run, listed, fails) ==
  IF fails
    THEN [run EXCEPT !.pc = "raised", !.calls = listed.calls, !.failed = Len(listed.calls)]
    ELSE [run EXCEPT !.pc = "loop", !.sprints = listed.val, !.calls = listed.calls]

\* one iteration that goes on to the next sprint when a remote call raised
ForSprintSkipping(run, r, fail_at) ==
  IF fail_at = 0
    THEN [run EXCEPT !.k = @ + 1,
                     !.all_sprint_records = Append(@, r.val),
                     !.calls = @ \o r.calls]
    ELSE [run EXCEPT !.k = @ + 1,
                     !.calls = @ \o SubSeq(r.calls, 1, fail_at),
                     !.failed = Len(run.calls) + fail_at]

\* one iteration of "for sprint in sprints": r is what the body computes and the
\* remote calls it makes, fail_at the one of them that raises (0: none)
ForSprint(run, r, fail_at) ==
  IF fail_at = 0
    THEN [run EXCEPT !.k = @ + 1,
                     !.all_sprint_records = Append(@, r.val),
                     !.calls = @ \o r.calls]
    ELSE [run EXCEPT !.pc = "raised",
                     !.calls = @ \o SubSeq(r.calls, 1, fail_at),
                     !.failed = Len(run.calls) + fail_at]

\* return all_sprint_metrics / return all_sprint_mr_rates
Return(run) == [run EXCEPT !.pc = "returned", !.returned = run.all_sprint_records]

\* a run is inside its loop
Busy == \E m \in Methods : runs[m].pc = "loop"

InitRun ==
  /\ pc = "idle"
  /\ method = "none"
  /\ args = <<>>
  /\ ret = <<>>
  /\ again = <<>>
  /\ gl \in Remotes
  /\ runs = [m \in Methods |-> NotCalled]
  /\ chart = Nothing

GetMetricsListAllSprints ==
  /\ runs["get_metrics_for_all_sprints"].pc = "not called"
  /\ ~Busy
  /\ \E fails \in BOOLEAN :
       runs' = [runs EXCEPT !["get_metrics_for_all_sprints"] =
                  ListSprints(@, list_all_sprints(gl), fails)]
  /\ UNCHANGED <<pc, method, args, ret, again, gl, chart>>

GetMetricsForSprint ==
  /\ runs["get_metrics_for_all_sprints"].pc = "loop"
  /\ runs["get_metrics_for_all_sprints"].k <= Len(runs["get_metrics_for_all_sprints"].sprints)
  /\ \E metrics \in {calculate_sprint_metrics(gl,
         runs["get_metrics_for_all_sprints"].sprints[runs["get_metrics_for_all_sprints"].k])} :
       \E fail_at \in 0..Len(metrics.calls) :
         runs' = [runs EXCEPT !["get_metrics_for_all_sprints"] = ForSprint(@, metrics, fail_at)]
  /\ UNCHANGED <<pc, method, args, ret, again, gl, chart>>

GetMetricsReturn ==
  /\ runs["get_metrics_for_all_sprints"].pc = "loop"
  /\ runs["get_metrics_for_all_sprints"].k > Len(runs["get_metrics_for_all_sprints"].sprints)
  /\ runs' = [runs EXCEPT !["get_metrics_for_all_sprints"] = Return(@)]
  /\ UNCHANGED <<pc, method, args, ret, again, gl, chart>>

GetMrRateListAllSprints ==
  /\ runs["get_mr_rate_for_all_sprints"].pc = "not called"
  /\ ~Busy
  /\ \E fails \in BOOLEAN :
       runs' = [runs EXCEPT !["get_mr_rate_for_all_sprints"] =
                  ListSprints(@, list_all_sprints(gl), fails)]
  /\ UNCHANGED <<pc, method, args, ret, again, gl, chart>>

GetMrRateForSprint ==
  /\ runs["get_mr_rate_for_all_sprints"].pc = "loop"
  /\ runs["get_mr_rate_for_all_sprints"].k <= Len(runs["get_mr_rate_for_all_sprints"].sprints)
  /\ \E mr_rate \in {sprint_mr_rate(gl,
         runs["get_mr_rate_for_all_sprints"].sprints[runs["get_mr_rate_for_all_sprints"].k])} :
       \E fail_at \in 0..Len(mr_rate.calls) :
         runs' = [runs EXCEPT !["get_mr_rate_for_all_sprints"] = ForSprint(@, mr_rate, fail_at)]
  /\ UNCHANGED <<pc, method, args, ret, again, gl, chart>>

GetMrRateReturn ==
  /\ runs["get_mr_rate_for_all_sprints"].pc = "loop"
  /\ runs["get_mr_rate_for_all_sprints"].k > Len(runs["get_mr_rate_for_all_sprints"].sprints)
  /\ runs' = [runs EXCEPT !["get_mr_rate_for_all_sprints"] = Return(@)]
  /\ UNCHANGED <<pc, method, args, ret, again, gl, chart>>

\* streamlit_app.py: data = fetch_data() has returned, the chart is drawn
LineChart ==
  /\ runs["get_mr_rate_for_all_sprints"].pc = "returned"
  /\ chart = Nothing
  /\ chart' = [data |-> line_chart_data(runs["get_mr_rate_for_all_sprints"].returned)]
  /\ UNCHANGED <<pc, method, args, ret, again, gl, runs>>

NextRun ==
  \/ GetMetricsListAllSprints
  \/ GetMetricsForSprint
  \/ GetMetricsReturn
  \/ GetMrRateListAllSprints
  \/ GetMrRateForSprint
  \/ GetMrRateReturn
  \/ LineChart

SpecRun == InitRun /\ [][NextRun]_vars

(***************************************************************************)
(* What the claims say of the text of the model, stated without the        *)
(* patterns: which bodies are headings, what they reference, and the       *)
(* chronological order of the timestamps.                                  *)
(***************************************************************************)
IsMarker(c) == c.body \in {ReviewBody, PaddedReviewBody}

IsReflection(c) == c.body \in {ReflectionBody, GoalReflectionBody, ReflectThreeBody}

IsGoal(c) == c.body \in {GoalBody, GoalReflectionBody, PlanTwoBody}

TimeRank(t) == IF t = Jan1 THEN 1 ELSE IF t = Jan1Half THEN 2 ELSE 3

\* comment a comes before comment b of the same collection when sorted by
\* creation time, ties in the order given (the ids are the positions)
Earlier(a, b) ==
  \/ TimeRank(a.created_at) < TimeRank(b.created_at)
  \/ a.created_at = b.created_at /\ a.id < b.id

InReviewSection(comments, c) ==
  \E k \in 1..Len(comments) : IsMarker(comments[k]) /\ Earlier(comments[k], c)

GoesToReview(comments, c) ==
  ~IsMarker(c) /\ InReviewSection(comments, c) /\ IsReflection(c)

GoesToPlanning(comments, c) ==
  ~IsMarker(c) /\ ~GoesToReview(comments, c) /\ IsGoal(c)

\* list holds exactly the comments of the set, once each, in chronological order
ChronologicalListOf(list, set) ==
  /\ Range(list) = set
  /\ Len(list) = Cardinality(set)
  /\ \A i \in 1..Len(list) : \A j \in (i + 1)..Len(list) : Earlier(list[i], list[j])

GoalMarkerReflection ==
  Notes(<< <<"alice", Jan1, GoalBody>>, <<"alice", Jan1Half, ReviewBody>>,
           <<"alice", Jan2Noon, ReflectionBody>> >>)

\* C1: split_sprint_comments returns the result of the chronological scan: planning
\* holds the goal comments not taken by review, review the reflection comments that
\* come after a "# Review" comment, each list in chronological order; the marker is
\* in neither, no comment is in both, a reflection before the first marker is not
\* in review, and goal@t1, marker@t2, reflection@t3 gives ([t1], [t3]).
SplitIsChronologicalScan ==
  (pc = "returned" /\ method = "split_sprint_comments") =>
    LET comments == args[1]
        all      == Range(comments)
    IN  /\ ChronologicalListOf(ret[1], {c \in all : GoesToPlanning(comments, c)})
        /\ ChronologicalListOf(ret[2], {c \in all : GoesToReview(comments, c)})
        /\ Range(ret[1]) \cap Range(ret[2]) = {}
        /\ \A c \in all : IsMarker(c) => c \notin Range(ret[1]) \cup Range(ret[2])
        /\ \A c \in all :
             (IsReflection(c) /\ ~InReviewSection(comments, c)) => c \notin Range(ret[2])
        /\ comments = GoalMarkerReflection =>
             ret = << <<GoalMarkerReflection[1]>>, <<GoalMarkerReflection[3]>> >>

\* the comments arrive out of order: the reflection first, with a later time than
\* the marker, and both lists are filled
SplitOutOfOrderSeen ==
  /\ pc = "returned"
  /\ method = "split_sprint_comments"
  /\ Len(args[1]) = 3
  /\ IsReflection(args[1][1]) /\ IsMarker(args[1][3])
  /\ Earlier(args[1][3], args[1][1])
  /\ Len(ret[1]) = 1
  /\ ret[2] = <<args[1][1]>>

\* C7 as stated: split_sprint_comments on the comments of P and R in chronological
\* order returns P and R again.
SplitAgainReturnsTheSame ==
  (again # <<>> /\ ~again[1].markers) => again[1].ret = ret

\* C7 as amended: with the "# Review" comments of C kept, the second call returns P
\* and R; on the comments of P and R alone it returns no review comment, and as
\* planning the comments of P and R that match the goal heading, in order.
SplitAgainNeedsTheMarkers ==
  again # <<>> =>
    IF again[1].markers
      THEN again[1].ret = ret
      ELSE /\ again[1].ret[2] = <<>>
           /\ again[1].ret[1] = SelectSeq(again[1].comments, IsGoal)
           /\ Range(again[1].comments) = Range(ret[1]) \cup Range(ret[2])
           /\ (\A k \in 1..Len(ret[2]) : ~IsGoal(ret[2][k])) => again[1].ret[1] = ret[1]

\* the second call, without the markers, on a first result that has review comments
SplitAgainLosesReview ==
  /\ again # <<>>
  /\ ~again[1].markers
  /\ ret[2] # <<>>
  /\ again[1].ret[2] = <<>>

Zero == Whole(0)

ReferencesOf(body) ==
  IF body = PlanTwoBody
    THEN {<<JoinWith(GroupSubProj, "/"), <<"2">> >>, <<JoinWith(GroupSubProj, "/"), <<"1">> >>}
  ELSE IF body = ReflectThreeBody THEN {<<JoinWith(GroupSubProj, "/"), <<"3">> >>}
  ELSE {}

ReferencesIn(comments) == UNION {ReferencesOf(comments[k].body) : k \in 1..Len(comments)}

HasHumanComment(discussions, mr) ==
  \E d \in 1..Len(discussions[<<mr.project_id, mr.iid>>]) :
    \E n \in 1..Len(discussions[<<mr.project_id, mr.iid>>][d].notes) :
      ~discussions[<<mr.project_id, mr.iid>>][d].notes[n].system

\* C2: a calculator whose denominator is zero returns 0 (0 in each component of a
\* pair) and raises nothing.
ZeroDenominatorGivesZero ==
  pc = "returned" =>
    /\ (method = "calculate_mr_rate" /\ args[1] = <<>>) => ret = Zero
    /\ (method = "calculate_mr_completion_rate" /\ args[1] = <<>>) => ret = Zero
    /\ (method = "calculate_average_time_to_merge"
          /\ \A k \in 1..Len(args[1]) : args[1][k].state # "merged") => ret = Zero
    /\ (method = "calculate_code_review_efficiency" /\ args[1] = <<>>) => ret = <<Zero, Zero>>
    /\ (method = "calculate_planned_issue_completion_rate" /\ ReferencesIn(args[1]) = {})
         => ret = Zero
    /\ (method = "calculate_scope_change_rate" /\ ReferencesIn(args[1]) = {})
         => ret = <<Zero, Zero>>
    /\ (method = "calculate_mr_collaboration_score"
          /\ \A k \in 1..Len(args[1]) : ~HasHumanComment(args[2], args[1][k]))
         => ret = <<Zero, Zero>>

\* the collaboration score of merge requests that have system notes only
ZeroDenominatorSeen ==
  /\ pc = "returned"
  /\ method = "calculate_mr_collaboration_score"
  /\ Len(args[1]) = 2
  /\ \A key \in MRKeys : args[2][key] # <<>>
  /\ \A k \in 1..Len(args[1]) : ~HasHumanComment(args[2], args[1][k])
  /\ ret = <<Zero, Zero>>

\* C3: calculate_mr_rate returns the number of merge requests divided by the number
\* of distinct authors of the planning comments; 4 and 2 give 2.0.
MrRateIsPerDistinctAuthor ==
  (pc = "returned" /\ method = "calculate_mr_rate") =>
    LET authors ==
          Cardinality({u \in Usernames :
                         \E k \in 1..Len(args[1]) : args[1][k].author.username = u})
    IN  /\ authors > 0 =>
             /\ ret.den > 0
             /\ ret.num * authors = Len(args[2]) * ret.den
        /\ (authors = 2 /\ Len(args[2]) = 4) => ret = Whole(2)

\* two planning comments of one author and four merge requests: the rate is 4
MrRateSameAuthorSeen ==
  /\ pc = "returned"
  /\ method = "calculate_mr_rate"
  /\ Len(args[1]) = 2
  /\ args[1][1].author = args[1][2].author
  /\ Len(args[2]) = 4
  /\ ret = Whole(4)

\* C5: with P the references of the planning comments and A those of the review and
\* planning comments, calculate_scope_change_rate returns (|A - P|, |A - P| / |P|),
\* and (0, 0) when P is empty; P = {1, 2}, A = {1, 2, 3} give (1, 0.5).
ScopeChangeIsNewOverPlanned ==
  (pc = "returned" /\ method = "calculate_scope_change_rate") =>
    LET P   == ReferencesIn(args[1])
        A   == ReferencesIn(args[2] \o args[1])
        new == A \ P
    IN  IF P = {} THEN ret = <<Zero, Zero>>
        ELSE /\ ret[1] = Whole(Cardinality(new))
             /\ ret[2].den > 0
             /\ ret[2].num * Cardinality(P) = Cardinality(new) * ret[2].den
             /\ (Cardinality(P) = 2 /\ Cardinality(new) = 1) => ret[2] = [num |-> 1, den |-> 2]

\* two planning comments that reference issues 1 and 2 (twice), a review comment
\* that references 3: (1, 0.5)
ScopeChangeHalfSeen ==
  /\ pc = "returned"
  /\ method = "calculate_scope_change_rate"
  /\ Len(args[1]) = 2
  /\ \A k \in 1..2 : args[1][k].body = PlanTwoBody
  /\ Len(args[2]) = 1
  /\ args[2][1].body = ReflectThreeBody
  /\ ret = <<Whole(1), [num |-> 1, den |-> 2]>>

\* the pair the claim expects of a URL
PairOf(shape) == <<JoinWith(shape.path, "/"), shape.id>>

\* the URLs the pattern of the source matches
OnGitlabComThreeDeep(shape) == shape.host = GitlabCom /\ Len(shape.path) = 3

\* C6 as stated: every URL https://<host>/<namespace path>/-/(issues|work_items)/<id>
\* of the comments yields (namespace path, id), whatever the host and the path.
EveryUrlYieldsItsPair ==
  (pc = "returned" /\ method = "_extract_issue_info_from_comments") =>
    ret = [k \in 1..Len(args[2]) |-> PairOf(args[2][k])]

\* C6 as amended: the URLs on gitlab.com whose namespace path has exactly three
\* segments yield (namespace path, id), one pair per occurrence, in order, duplicates
\* kept; the other URLs yield nothing.
GitlabComUrlsYieldTheirPair ==
  (pc = "returned" /\ method = "_extract_issue_info_from_comments") =>
    LET matched == SelectSeq(args[2], OnGitlabComThreeDeep)
    IN  ret = [k \in 1..Len(matched) |-> PairOf(matched[k])]

\* the same gitlab.com URL in two comments: the pair twice
SameUrlTwiceSeen ==
  /\ pc = "returned"
  /\ method = "_extract_issue_info_from_comments"
  /\ Len(args[2]) = 2
  /\ args[2][1] = args[2][2]
  /\ OnGitlabComThreeDeep(args[2][1])
  /\ args[1][1].body # args[1][2].body
  /\ ret = << <<JoinWith(GroupSubProj, "/"), <<"4","2">> >>,
              <<JoinWith(GroupSubProj, "/"), <<"4","2">> >> >>


(***************************************************************************)
(* The runs over the sprints.                                              *)
(***************************************************************************)
FullRun == runs["get_metrics_for_all_sprints"]

RateRun == runs["get_mr_rate_for_all_sprints"]

\* the name of the remote call at a position of a run's calls
CallName(run, position) == run.calls[position][1]

\* a run in which a remote call has failed: the error has reached the caller, who
\* has no list; the failed call is the last call of the run; the loop has not
\* moved past the sprint it was at, whose record was not appended
Aborted(run) ==
  /\ run.pc = "raised"
  /\ run.returned = Nothing
  /\ run.failed = Len(run.calls)
  /\ Len(run.all_sprint_records) = run.k - 1
  /\ Len(run.all_sprint_records) <= Len(run.sprints)

\* C4: once a remote call of get_metrics_for_all_sprints or of
\* get_mr_rate_for_all_sprints has failed, the run is aborted (the error is raised
\* to the caller, the failed call is the run's last call, the failed sprint is not
\* skipped, no list is returned) and nothing of the run changes any more: no retry,
\* no later call, no result.
FailedCallAbortsTheRun ==
  [][\A m \in Methods :
       runs'[m].failed # 0 => /\ Aborted(runs'[m])
                              /\ runs[m].failed # 0 => runs'[m] = runs[m]]_vars

\* the discussions of a merge request fail to list after a sprint was completed:
\* its record is lost with the run, and the other method runs afterwards
DiscussionsFailedAfterASprint ==
  /\ FullRun.failed # 0
  /\ CallName(FullRun, FullRun.failed) = "mr.discussions.list"
  /\ Len(FullRun.all_sprint_records) = 1
  /\ FullRun.returned = Nothing
  /\ RateRun.pc = "returned"

\* two remotes agree on a sprint: on its comments, its merge requests, their
\* discussions and the issues its comments refer to
AgreeOn(a, b, sprint) ==
  /\ a.notes[sprint.id] = b.notes[sprint.id]
  /\ a.created[WindowOf(sprint)] = b.created[WindowOf(sprint)]
  /\ a.updated[WindowOf(sprint)] = b.updated[WindowOf(sprint)]
  /\ \A k \in 1..Len(a.updated[WindowOf(sprint)]) :
       LET mr == a.updated[WindowOf(sprint)][k]
       IN  a.discussions[<<mr.project_id, mr.iid>>] = b.discussions[<<mr.project_id, mr.iid>>]
  /\ \A ref \in ReferencesIn(a.notes[sprint.id]) : a.issues[ref] = b.issues[ref]

\* the epics of a remote that are sprints, by their titles
SprintsOf(remote) ==
  SelectSeq(remote.epics, LAMBDA e : e.title \in {SprintOneTitle, SprintTwoTitle, SprintThreeTitle})

\* a remote whose only epic is the sprint, with the data d
Alone(sprint, d) ==
  [epics |-> <<sprint>>, notes |-> d.notes, created |-> d.created, updated |-> d.updated,
   discussions |-> d.discussions, issues |-> d.issues]

\* C8: when get_metrics_for_all_sprints completes it returns one record per
\* enumerated sprint, in enumeration order, and the record of a sprint is what
\* calculate_sprint_metrics returns for that sprint alone, on any remote data that
\* agree with this run's on the sprint, whatever the other sprints and their data.
RecordsArePerSprint ==
  FullRun.pc = "returned" =>
    /\ Len(FullRun.returned) = Len(SprintsOf(gl))
    /\ \A i \in 1..Len(FullRun.returned) :
         /\ FullRun.returned[i].sprint_name = SprintsOf(gl)[i].title
         /\ \A d \in Datasets :
              AgreeOn(gl, Alone(SprintsOf(gl)[i], d), SprintsOf(gl)[i]) =>
                FullRun.returned[i] =
                  calculate_sprint_metrics(Alone(SprintsOf(gl)[i], d), SprintsOf(gl)[i]).val

\* two sprints were returned, and some remote agrees on the first and has other
\* data, and another record, for the second
OtherSprintDiffersSeen ==
  /\ FullRun.pc = "returned"
  /\ Len(FullRun.returned) = 2
  /\ \E other \in Remotes :
       /\ AgreeOn(gl, other, SprintsOf(gl)[1])
       /\ ~AgreeOn(gl, other, SprintsOf(gl)[2])
       /\ calculate_sprint_metrics(other, SprintsOf(gl)[2]).val # FullRun.returned[2]
       /\ calculate_sprint_metrics(other, SprintsOf(gl)[1]).val = FullRun.returned[1]

\* C9 as stated: the mapping given to the line chart has, for every record that
\* get_mr_rate_for_all_sprints returned, an entry whose key is the record's start
\* date and whose value is its MR rate, and as many entries as there are records.
ChartShowsEverySprint ==
  chart # Nothing =>
    /\ \A k \in 1..Len(RateRun.returned) :
         /\ RateRun.returned[k].start_date \in DOMAIN chart.data
         /\ chart.data[RateRun.returned[k].start_date] = RateRun.returned[k].mr_rate
    /\ Cardinality(DOMAIN chart.data) = Len(RateRun.returned)

\* the fields the two paths share
Displayed(record) ==
  <<record.sprint_name, record.start_date, record.end_date, record.mr_rate>>

\* C10: the MR-rate path makes no merge-request-discussion and no issue lookup, and
\* when both runs complete on the same remote data their lists have the same
\* length and order and agree, sprint by sprint, on sprint_name, start_date,
\* end_date and mr_rate.
PathsAgreeOnMrRate ==
  /\ \A c \in 1..Len(RateRun.calls) :
       CallName(RateRun, c) \in {"group.epics.list", "epic.notes.list", "group.mergerequests.list"}
  /\ (FullRun.pc = "returned" /\ RateRun.pc = "returned") =>
       /\ Len(FullRun.returned) = Len(RateRun.returned)
       /\ \A i \in 1..Len(RateRun.returned) :
            Displayed(RateRun.returned[i]) = Displayed(FullRun.returned[i])

\* both runs completed over two sprints with different MR rates, the full run
\* having looked up discussions and issues
BothPathsCompletedSeen ==
  /\ FullRun.pc = "returned"
  /\ RateRun.pc = "returned"
  /\ Len(RateRun.returned) = 2
  /\ RateRun.returned[1].mr_rate # RateRun.returned[2].mr_rate
  /\ RateRun.returned[1].mr_rate # Zero
  /\ \E c \in 1..Len(FullRun.calls) : CallName(FullRun, c) = "mr.discussions.list"
  /\ \E c \in 1..Len(FullRun.calls) : CallName(FullRun, c) = "project.issues.get"

\* the MR-rate path completes where the full path aborts on an issue lookup
RatePathCompletesWhereFullPathAborts ==
  /\ RateRun.pc = "returned"
  /\ Len(RateRun.returned) >= 1
  /\ FullRun.pc = "raised"
  /\ CallName(FullRun, FullRun.failed) = "project.issues.get"

=============================================================================
